---- MODULE Spec2Model ----
(***************************************************************************)
(* CourseEligibilityChecker (src/course_eligibility_checker.py).           *)
(*                                                                         *)
(* The checker holds one rdflib Graph, self.g, a set of triples loaded     *)
(* from an OWL file by the constructor.  Every method is a fixed SPARQL    *)
(* query over self.g followed by a little post-processing.  The model      *)
(* keeps the graph as a set of triples <<subject, predicate, object>> and  *)
(* evaluates each query as the graph pattern it is.                        *)
(*                                                                         *)
(* An RDF term is a pair <<kind, lexical form>>: an IRI, a plain literal   *)
(* or a language-tagged literal.  A literal written "CS-101" in a query    *)
(* is the plain literal and matches no other term; str() of a term is its  *)
(* lexical form, whatever its kind.                                        *)
(***************************************************************************)
EXTENDS Integers, Sequences, FiniteSets

VARIABLES g,        \* self.g: the triples of the loaded ontology
          call,     \* the method last called, with its arguments
          ret,      \* what that call returned (or the exception it raised)
          queries   \* the SPARQL queries that call ran, in order

vars == <<g, call, ret, queries>>

(***************************************************************************)
(* Bounds of the ontologies that are explored.                             *)
(***************************************************************************)
MaxCodeTriples == 2
MaxPrereqEdges == 2
MaxTaughtBy == 3

(***************************************************************************)
(* RDF terms.                                                              *)
(***************************************************************************)
Iri(name) == <<"iri", name>>
Lit(lex) == <<"plain", lex>>
LangLit(lex) == <<"lang", lex>>
str(term) == term[2]

Nodes == {"c1", "c2", "c3"}
StudentIds == {"Student001"}
UnknownStudent == "Student999"
CodeStrings == {"CS-101", "CS-201"}
UnknownCode == "XX-999"
CodeLiterals == {Lit("CS-101"), Lit("CS-201"), LangLit("CS-101")}

\* Python's order on the strings used as course codes.
StrOrder == <<"CS-101", "CS-201", "XX-999">>
StrIndex(s) == CHOOSE i \in 1..Len(StrOrder) : StrOrder[i] = s
StrLess(a, b) == StrIndex(a) < StrIndex(b)

CodeTriples == {<<n, "courseCode", l>> : n \in Nodes, l \in CodeLiterals}
PrereqTriples == {<<n, "hasPrerequisite", Iri(m)>> : n \in Nodes, m \in Nodes}
TakenTriples == {<<s, "hasTaken", Iri(n)>> : s \in StudentIds, n \in Nodes}

UpTo(S, k) == {x \in SUBSET S : Cardinality(x) <= k}

\* The courseCode statements of an ontology in which every course has one
\* code (two courses may share a code), and of one with few such statements,
\* put anywhere (a course may have two codes, or none).
FullCodings == {{<<n, "courseCode", f[n]>> : n \in Nodes} : f \in [Nodes -> CodeLiterals]}
Codings == FullCodings \cup UpTo(CodeTriples, MaxCodeTriples)

\* A fully described course: typed :Course, with a name and integer credit hours.
TypeTriple(n) == <<n, "type", Iri("Course")>>
NameTriple(n) == <<n, "courseName", Lit("Intro")>>
CreditTriple(n, lex) == <<n, "creditHours", Lit(lex)>>
Described(n) == {TypeTriple(n), NameTriple(n), CreditTriple(n, "3")}
\* the description of a course of a listing: complete, or without type, or
\* without name, or with credit hours that are no numeral
DescriptionVariants(n) ==
    { Described(n),
      Described(n) \ {TypeTriple(n)},
      Described(n) \ {NameTriple(n)},
      (Described(n) \ {CreditTriple(n, "3")}) \cup {CreditTriple(n, "TBD")} }
AllDescribed == UNION {Described(n) : n \in Nodes}
\* the course whose description varies; the others are fully described
VariedNode == "c3"

\* the description of a course looked up by get_course_info, which does not
\* ask for the type: complete, or without name, or without credit hours, or
\* with credit hours that are no numeral
InfoVariants(n) ==
    { Described(n),
      Described(n) \ {NameTriple(n)},
      Described(n) \ {CreditTriple(n, "3")},
      (Described(n) \ {CreditTriple(n, "3")}) \cup {CreditTriple(n, "TBD")} }

\* the statements that the OPTIONAL parts of get_course_info match, for one
\* course: none, a professor without or with a name, a named department
OptionalVariants(n) ==
    { {},
      {<<n, "taughtBy", Iri("p1")>>},
      {<<n, "taughtBy", Iri("p1")>>, <<"p1", "professorName", Lit("Ada")>>},
      {<<n, "belongsToDepartment", Iri("d1")>>, <<"d1", "departmentName", Lit("CS")>>} }

\* Professors and departments of the workload report.
Professors == {"p1", "p2"}
TaughtByTriples == {<<n, "taughtBy", Iri(p)>> : n \in Nodes, p \in Professors}
Staffed(p, name, d) == {<<p, "type", Iri("Professor")>>,
                        <<p, "professorName", Lit(name)>>,
                        <<p, "worksInDepartment", Iri(d)>>}
\* the statements about professor p: none, complete, or complete but for
\* one statement missing or doubled
ProfessorVariants(p, name) ==
    { {},
      Staffed(p, name, "d1"),
      Staffed(p, name, "d2"),
      Staffed(p, name, "d1") \ {<<p, "type", Iri("Professor")>>},
      Staffed(p, name, "d1") \ {<<p, "professorName", Lit(name)>>},
      Staffed(p, name, "d1") \ {<<p, "worksInDepartment", Iri("d1")>>},
      Staffed(p, name, "d1") \cup {<<p, "worksInDepartment", Iri("d2")>>},
      Staffed(p, name, "d1") \cup {<<p, "professorName", Lit("Eve")>>} }
\* department d1 is named "CS"; d2 is named "Math", or "CS" too, or not named
DepartmentNamings ==
    { {<<"d1", "departmentName", Lit("CS")>>} \cup d2 :
        d2 \in { {<<"d2", "departmentName", Lit("Math")>>},
                 {<<"d2", "departmentName", Lit("CS")>>},
                 {} } }
\* the resources typed :Course: all of them, or all but one
CourseTypings == { {TypeTriple(n) : n \in Nodes},
                   {TypeTriple(n) : n \in Nodes \ {"c3"}} }

\* int(row.credits): defined on the numerals only
IsInt(term) == str(term) \in {"3", "4"}
int(term) == IF str(term) = "3" THEN 3 ELSE 4

Unbound == <<"unbound", "">>

(***************************************************************************)
(* Helpers: a query result is iterated in an order the engine chooses;     *)
(* Rows fixes one such order for a set of solution rows.                   *)
(***************************************************************************)
RECURSIVE Rows(_)
Rows(S) == IF S = {} THEN <<>>
           ELSE LET r == CHOOSE x \in S : TRUE
                IN <<r>> \o Rows(S \ {r})

Range(seq) == {seq[i] : i \in 1..Len(seq)}

sortedDescending(S) ==
    LET RECURSIVE Desc(_)
        Desc(T) == IF T = {} THEN <<>>
                   ELSE LET m == CHOOSE x \in T : \A y \in T : ~StrLess(x, y)
                        IN <<m>> \o Desc(T \ {m})
    IN Desc(S)

\* sorted(list(missing)): the strings of S in ascending order.
RECURSIVE sorted(_)
sorted(S) == IF S = {} THEN <<>>
             ELSE LET m == CHOOSE x \in S : \A y \in S : ~StrLess(y, x)
                  IN <<m>> \o sorted(S \ {m})

(***************************************************************************)
(* Graph patterns.                                                         *)
(***************************************************************************)
\* ?course :courseCode "course_code"
CoursesWithCode(course_code) ==
    {t[1] : t \in {u \in g : u[2] = "courseCode" /\ u[3] = Lit(course_code)}}

\* ?course :hasPrerequisite ?prereq, for ?course in N
PrereqStep(N) ==
    {t[3][2] : t \in {u \in g : u[2] = "hasPrerequisite" /\ u[1] \in N}}

\* ?course :hasPrerequisite+ ?prereq, for ?course in N
RECURSIVE PrereqClose(_)
PrereqClose(R) == LET next == R \cup PrereqStep(R)
                  IN IF next = R THEN R ELSE PrereqClose(next)

PrereqPlus(N) == PrereqClose(PrereqStep(N))

\* ?prereq :courseCode ?prereqCode, for ?prereq in N: the code terms
CodeTermsOf(N) == {t[3] : t \in {u \in g : u[2] = "courseCode" /\ u[1] \in N}}

(***************************************************************************)
(* The query methods.                                                      *)
(***************************************************************************)
get_courses_taken(student_id) ==
    {str(c[3]) : c \in {u \in g : /\ u[2] = "courseCode"
                                  /\ <<student_id, "hasTaken", Iri(u[1])>> \in g}}

\* SELECT DISTINCT ?prereqCode: one row per distinct code term
get_prerequisites_skipsDirect(course_code) ==
    LET terms == Rows(CodeTermsOf(PrereqPlus(PrereqStep(CoursesWithCode(course_code)))))
    IN [i \in 1..Len(terms) |-> str(terms[i])]

\* the closure without the course itself
get_prerequisites_excludesSelf(course_code) ==
    LET courses == CoursesWithCode(course_code)
        terms == Rows(CodeTermsOf(PrereqPlus(courses) \ courses))
    IN [i \in 1..Len(terms) |-> str(terms[i])]

get_prerequisites(course_code) ==
    LET terms == Rows(CodeTermsOf(PrereqPlus(CoursesWithCode(course_code))))
    IN [i \in 1..Len(terms) |-> str(terms[i])]

\* SELECT ?prereqCode: one row per solution <<course, prereq, code term>>
get_direct_prerequisites(course_code) ==
    LET sols == {<<t[1], t[3][2], c[3]>> :
                   t \in {u \in g : /\ u[2] = "hasPrerequisite"
                                    /\ u[1] \in CoursesWithCode(course_code)},
                   c \in {u \in g : u[2] = "courseCode"}}
        rows == Rows({s \in sols : <<s[2], "courseCode", s[3]>> \in g})
    IN [i \in 1..Len(rows) |-> str(rows[i][3])]

can_enroll_ignoresTaken(student_id, course_code) ==
    LET prerequisites == Range(get_prerequisites(course_code))
    IN <<prerequisites = {}, sorted(prerequisites)>>

can_enroll_unsorted(student_id, course_code) ==
    LET courses_taken == get_courses_taken(student_id)
        prerequisites == Range(get_prerequisites(course_code))
        missing == prerequisites \ courses_taken
    IN IF prerequisites = {} THEN <<TRUE, <<>>>>
       ELSE <<missing = {}, sortedDescending(missing)>>

\* the difference taken the wrong way round
can_enroll_swapped(student_id, course_code) ==
    LET courses_taken == get_courses_taken(student_id)
        prerequisites == Range(get_prerequisites(course_code))
        missing == courses_taken \ prerequisites
    IN IF prerequisites = {} THEN <<TRUE, <<>>>>
       ELSE <<missing = {}, sorted(missing)>>

can_enroll_anyTaken(student_id, course_code) ==
    LET courses_taken == get_courses_taken(student_id)
        prerequisites == Range(get_prerequisites(course_code))
        missing == prerequisites \ courses_taken
    IN IF prerequisites = {} THEN <<TRUE, <<>>>>
       ELSE <<missing # prerequisites, sorted(missing)>>

can_enroll(student_id, course_code) ==
    LET courses_taken == get_courses_taken(student_id)
        prerequisites == Range(get_prerequisites(course_code))
        missing == prerequisites \ courses_taken
    IN IF prerequisites = {} THEN <<TRUE, <<>>>>
       ELSE <<missing = {}, sorted(missing)>>

\* The rows of get_available_courses' query: <<course, code, name, credits>>
CourseRows ==
    UNION {{<<c[1], c[3], n[3], h[3]>> :
              n \in {u \in g : u[1] = c[1] /\ u[2] = "courseName"},
              h \in {u \in g : u[1] = c[1] /\ u[2] = "creditHours"}} :
           c \in {u \in g : u[2] = "courseCode" /\ TypeTriple(u[1]) \in g}}

\* One turn of get_available_courses' loop, for the row `row`; st is the
\* state so far: the list built, the queries run, whether int() has raised.
AvailableStep(st, row, student_id, courses_taken) ==
    LET course_code == str(row[2])
        ran == st.queries \o <<"courses_taken", "prerequisites">>
    IN IF st.status # "ok" \/ course_code \in courses_taken THEN st
       ELSE IF ~can_enroll(student_id, course_code)[1]
       THEN [st EXCEPT !.queries = ran]
       ELSE IF ~IsInt(row[4])
       THEN [status |-> "ValueError", value |-> <<>>, queries |-> ran]
       ELSE [st EXCEPT !.queries = ran,
                       !.value = Append(@, [code |-> course_code,
                                            name |-> str(row[3]),
                                            credits |-> int(row[4])])]

\* The loop over the rows, given the set the `continue` test reads.
AvailableLoop(student_id, courses_taken) ==
    LET rows == Rows(CourseRows)
        after[i \in 0..Len(rows)] ==
            IF i = 0
            THEN [status |-> "ok", value |-> <<>>,
                  queries |-> <<"courses", "courses_taken">>]
            ELSE AvailableStep(after[i - 1], rows[i], student_id, courses_taken)
    IN after[Len(rows)]

get_available_courses_keepsTaken(student_id) ==
    AvailableLoop(student_id, {})

get_available_courses_skipsCheck(student_id) ==
    LET rows == SelectSeq(Rows(CourseRows),
                          LAMBDA r : str(r[2]) \notin get_courses_taken(student_id)
                                     /\ IsInt(r[4]))
    IN [status |-> "ok",
        value |-> [i \in 1..Len(rows) |-> [code |-> str(rows[i][2]),
                                            name |-> str(rows[i][3]),
                                            credits |-> int(rows[i][4])]],
        queries |-> <<"courses", "courses_taken">>]

get_available_courses(student_id) ==
    AvailableLoop(student_id, get_courses_taken(student_id))

\* The rows of get_professor_workload's pattern:
\* <<prof, profName, dept, deptName, course>>
WorkloadRows ==
    LET profs == {u \in g : u[2] = "professorName"
                            /\ <<u[1], "type", Iri("Professor")>> \in g}
        works == {u \in g : u[2] = "worksInDepartment"}
        depts == {u \in g : u[2] = "departmentName"}
        taught == {u \in g : u[2] = "taughtBy"}
    IN {r \in {<<p[1], p[3], w[3][2], d[3], t[1]>> :
                  p \in profs, w \in works, d \in depts, t \in taught} :
          /\ <<r[1], "worksInDepartment", Iri(r[3])>> \in g
          /\ <<r[3], "departmentName", r[4]>> \in g
          /\ <<r[5], "taughtBy", Iri(r[1])>> \in g}

\* a grouping that keeps, of the professors sharing a name and a department,
\* the count of one only
WorkloadGroups_oneProfessorPerKey(rows) ==
    {[profName |-> k[1], deptName |-> k[2],
      courseCount |->
          LET prof == CHOOSE p \in {r[1] : r \in {q \in rows : q[2] = k[1] /\ q[4] = k[2]}} : TRUE
          IN Cardinality({r \in rows : r[1] = prof /\ r[2] = k[1] /\ r[4] = k[2]})] :
        k \in {<<r[2], r[4]>> : r \in rows}}

\* GROUP BY ?profName ?deptName with COUNT(?course)
WorkloadGroups(rows) ==
    {[profName |-> k[1], deptName |-> k[2],
      courseCount |-> Cardinality({r \in rows : r[2] = k[1] /\ r[4] = k[2]})] :
        k \in {<<r[2], r[4]>> : r \in rows}}

\* ORDER BY DESC(?courseCount)
RECURSIVE OrderByCountDesc(_)
OrderByCountDesc(G) ==
    IF G = {} THEN <<>>
    ELSE LET m == CHOOSE x \in G : \A y \in G : y.courseCount <= x.courseCount
         IN <<m>> \o OrderByCountDesc(G \ {m})

get_professor_workload ==
    LET results == OrderByCountDesc(WorkloadGroups(WorkloadRows))
    IN [i \in 1..Len(results) |-> [professor |-> str(results[i].profName),
                                    department |-> str(results[i].deptName),
                                    courses |-> results[i].courseCount]]

\* The rows of get_course_info's query:
\* <<course, name, credits, profName or Unbound, deptName or Unbound>>
Optional(S) == IF S = {} THEN {Unbound} ELSE S

ProfNamesOf(course) ==
    {n[3] : n \in {u \in g : /\ u[2] = "professorName"
                             /\ <<course, "taughtBy", Iri(u[1])>> \in g}}

DeptNamesOf(course) ==
    {n[3] : n \in {u \in g : /\ u[2] = "departmentName"
                             /\ <<course, "belongsToDepartment", Iri(u[1])>> \in g}}

CourseInfoRows(course_code) ==
    UNION {{<<c, n[3], h[3], p, d>> :
              n \in {u \in g : u[1] = c /\ u[2] = "courseName"},
              h \in {u \in g : u[1] = c /\ u[2] = "creditHours"},
              p \in Optional(ProfNamesOf(c)),
              d \in Optional(DeptNamesOf(c))} :
           c \in CoursesWithCode(course_code)}

CourseInfoOf(course_code, results) ==
    LET row == results[1]
        direct_prereqs == get_direct_prerequisites(course_code)
        all_prereqs == get_prerequisites(course_code)
    IN IF ~IsInt(row[3])
       THEN [status |-> "ValueError", value |-> <<>>,
             queries |-> <<"course_info", "direct_prerequisites", "prerequisites">>]
       ELSE [status |-> "ok",
             value |-> [code |-> course_code,
                        name |-> str(row[2]),
                        credits |-> int(row[3]),
                        professor |-> IF row[4] # Unbound THEN str(row[4]) ELSE "N/A",
                        department |-> IF row[5] # Unbound THEN str(row[5]) ELSE "N/A",
                        direct_prerequisites |-> direct_prereqs,
                        all_prerequisites |-> all_prereqs],
             queries |-> <<"course_info", "direct_prerequisites", "prerequisites">>]

\* without the test for an empty result, results[0] raises
get_course_info_noSentinel(course_code) ==
    LET results == Rows(CourseInfoRows(course_code))
    IN IF results = <<>>
       THEN [status |-> "IndexError", value |-> <<>>, queries |-> <<"course_info">>]
       ELSE CourseInfoOf(course_code, results)

get_course_info(course_code) ==
    LET results == Rows(CourseInfoRows(course_code))
    IN IF results = <<>>
       THEN [status |-> "None", value |-> <<>>, queries |-> <<"course_info">>]
       ELSE CourseInfoOf(course_code, results)

(***************************************************************************)
(* Calls.  Each action is one method call on the checker: it records the   *)
(* call, what it returned and the queries it ran; the graph is read only.  *)
(* The caller is single-threaded and synchronous, as main() is: it makes   *)
(* one call at a time and takes the result before it does anything else.   *)
(***************************************************************************)
NoCall == [op |-> "none", student_id |-> "", course_code |-> ""]
NoReturn == [status |-> "none", value |-> <<>>]
Returned(v) == [status |-> "ok", value |-> v]
QueryStudents == StudentIds \cup {UnknownStudent}
QueryCodes == CodeStrings \cup {UnknownCode}
Idle == call.op = "none"

CallGetCoursesTaken ==
    \E s \in QueryStudents :
        /\ Idle
        /\ call' = [op |-> "get_courses_taken", student_id |-> s, course_code |-> ""]
        /\ ret' = Returned(get_courses_taken(s))
        /\ queries' = <<"courses_taken">>
        /\ UNCHANGED g

CallGetPrerequisites ==
    \E c \in QueryCodes :
        /\ Idle
        /\ call' = [op |-> "get_prerequisites", student_id |-> "", course_code |-> c]
        /\ ret' = Returned(get_prerequisites(c))
        /\ queries' = <<"prerequisites">>
        /\ UNCHANGED g

CallGetDirectPrerequisites ==
    \E c \in QueryCodes :
        /\ Idle
        /\ call' = [op |-> "get_direct_prerequisites", student_id |-> "",
                    course_code |-> c]
        /\ ret' = Returned(get_direct_prerequisites(c))
        /\ queries' = <<"direct_prerequisites">>
        /\ UNCHANGED g

CallCanEnroll ==
    \E s \in QueryStudents, c \in QueryCodes :
        /\ Idle
        /\ call' = [op |-> "can_enroll", student_id |-> s, course_code |-> c]
        /\ ret' = Returned(can_enroll(s, c))
        /\ queries' = <<"courses_taken", "prerequisites">>
        /\ UNCHANGED g

CallGetAvailableCourses ==
    \E s \in QueryStudents :
        LET r == get_available_courses(s)
        IN /\ Idle
           /\ call' = [op |-> "get_available_courses", student_id |-> s,
                       course_code |-> ""]
           /\ ret' = [status |-> r.status, value |-> r.value]
           /\ queries' = r.queries
           /\ UNCHANGED g

CallGetProfessorWorkload ==
    /\ Idle
    /\ call' = [op |-> "get_professor_workload", student_id |-> "", course_code |-> ""]
    /\ ret' = Returned(get_professor_workload)
    /\ queries' = <<"workload">>
    /\ UNCHANGED g

CallGetCourseInfo ==
    \E c \in QueryCodes :
        LET r == get_course_info(c)
        IN /\ Idle
           /\ call' = [op |-> "get_course_info", student_id |-> "", course_code |-> c]
           /\ ret' = [status |-> r.status, value |-> r.value]
           /\ queries' = r.queries
           /\ UNCHANGED g

\* The caller has taken the result of the last call (main() prints it).
Return ==
    /\ ~Idle
    /\ call' = NoCall
    /\ ret' = NoReturn
    /\ queries' = <<>>
    /\ UNCHANGED g

\* __init__ run again on the ontology file after one more hasTaken statement
\* was written to it: a new checker over the larger graph.  What the caller
\* holds from its last call on the old checker is untouched.
Reload ==
    \E t \in TakenTriples \ g :
        /\ g' = g \cup {t}
        /\ UNCHANGED <<call, ret, queries>>

(***************************************************************************)
(* The state after construction: the graph parsed from the file.           *)
(***************************************************************************)
Loaded(graph) ==
    /\ g = graph
    /\ call = NoCall
    /\ ret = NoReturn
    /\ queries = <<>>

\* Courses, prerequisites and completed courses.
InitEnroll ==
    \E cs \in Codings,
       ps \in UpTo(PrereqTriples, MaxPrereqEdges),
       ts \in SUBSET TakenTriples :
        Loaded(cs \cup ps \cup ts)

NextEnroll == CallCanEnroll \/ CallGetCoursesTaken \/ Return

SpecEnroll == InitEnroll /\ [][NextEnroll]_vars

(***************************************************************************)
(* Claims about can_enroll.                                                *)
(***************************************************************************)
\* C1: can_enroll returns True as its first component if and only if the
\* missing-prerequisites list it returns as its second component is empty.
C1_EligibleIffNoneMissing ==
    call.op = "can_enroll" => (ret.value[1] <=> ret.value[2] = <<>>)

\* C1 witness: can_enroll answered True for a course that has prerequisites.
C1_Witness ==
    /\ call.op = "can_enroll"
    /\ ret.value[1]
    /\ get_prerequisites(call.course_code) # <<>>

\* C2: the missing list of can_enroll holds exactly the codes that
\* get_prerequisites returns for the course and get_courses_taken does not
\* return for the student.
C2_MissingIsRequiredMinusCompleted ==
    call.op = "can_enroll" =>
        Range(ret.value[2]) =
            Range(get_prerequisites(call.course_code))
                \ get_courses_taken(call.student_id)

\* C2 witness: one prerequisite is completed and another one is missing.
C2_Witness ==
    /\ call.op = "can_enroll"
    /\ ret.value[2] # <<>>
    /\ Range(get_prerequisites(call.course_code))
          \cap get_courses_taken(call.student_id) # {}

\* the ontology has no statement about the student
UnknownToOntology(student_id) == \A t \in g : t[1] # student_id
\* no course of the ontology carries the code, as any kind of literal
CarriedByNoCourse(course_code) ==
    \A t \in g : t[2] = "courseCode" => str(t[3]) # course_code
Ascending(seq) == \A i, j \in 1..Len(seq) : i < j => StrLess(seq[i], seq[j])

InitPrereq ==
    \E cs \in Codings,
       ps \in UpTo(PrereqTriples, MaxPrereqEdges) :
        Loaded(cs \cup ps \cup AllDescribed)

NextPrereq ==
    CallGetPrerequisites \/ CallGetDirectPrerequisites \/ CallGetCourseInfo \/ Return

SpecPrereq == InitPrereq /\ [][NextPrereq]_vars

\* C3: every code returned by get_direct_prerequisites is also returned by
\* get_prerequisites, so 'all_prerequisites' is a superset of
\* 'direct_prerequisites' in the dictionary of get_course_info.
C3_TransitiveIncludesDirect ==
    /\ call.op = "get_direct_prerequisites" =>
          Range(ret.value) \subseteq Range(get_prerequisites(call.course_code))
    /\ call.op = "get_prerequisites" =>
          Range(get_direct_prerequisites(call.course_code)) \subseteq Range(ret.value)
    /\ (call.op = "get_course_info" /\ ret.status = "ok") =>
          Range(ret.value.direct_prerequisites)
              \subseteq Range(ret.value.all_prerequisites)

\* C3 witness: get_course_info reported a direct prerequisite and, beyond the
\* direct ones, an indirect one.
C3_Witness ==
    /\ call.op = "get_course_info"
    /\ ret.status = "ok"
    /\ ret.value.direct_prerequisites # <<>>
    /\ Range(ret.value.all_prerequisites)
          \ Range(ret.value.direct_prerequisites) # {}

(***************************************************************************)
(* Claims about the workload report.                                       *)
(***************************************************************************)
\* Courses, the professors who teach them and their departments.
InitWorkload ==
    \E tb \in UpTo(TaughtByTriples, MaxTaughtBy),
       s1 \in ProfessorVariants("p1", "Ada"),
       s2 \in ProfessorVariants("p2", "Bob") \cup {Staffed("p2", "Ada", "d1")},
       dn \in DepartmentNamings,
       ct \in CourseTypings :
        Loaded(tb \cup s1 \cup s2 \cup dn \cup ct)

NextWorkload == CallGetProfessorWorkload \/ Return

SpecWorkload == InitWorkload /\ [][NextWorkload]_vars

RECURSIVE SumOfCourses(_)
SumOfCourses(workload) ==
    IF workload = <<>> THEN 0
    ELSE Head(workload).courses + SumOfCourses(Tail(workload))

TotalCourses == Cardinality({t \in g : t[2] = "type" /\ t[3] = Iri("Course")})

ObjectsOf(s, p) == {t[3] : t \in {u \in g : u[1] = s /\ u[2] = p}}

\* every course is taught by exactly one professor, nothing else is taught,
\* and every teaching professor is typed :Professor and has one name and one
\* department, which has one name
TeachingWellFormed ==
    /\ \A t \in g : t[2] = "taughtBy" => TypeTriple(t[1]) \in g
    /\ \A t \in g : (t[2] = "type" /\ t[3] = Iri("Course")) =>
          Cardinality(ObjectsOf(t[1], "taughtBy")) = 1
    /\ \A t \in g : t[2] = "taughtBy" =>
          LET prof == t[3][2]
          IN /\ <<prof, "type", Iri("Professor")>> \in g
             /\ Cardinality(ObjectsOf(prof, "professorName")) = 1
             /\ Cardinality(ObjectsOf(prof, "worksInDepartment")) = 1
             /\ \A d \in ObjectsOf(prof, "worksInDepartment") :
                   Cardinality(ObjectsOf(d[2], "departmentName")) = 1

\* C4 as stated: for any ontology, the 'courses' counts of
\* get_professor_workload sum to the total number of courses.
C4_AsStated ==
    call.op = "get_professor_workload" => SumOfCourses(ret.value) = TotalCourses

\* C4, amended: when every course is taught by exactly one professor and
\* every teaching professor is fully and singly described, the 'courses'
\* counts of get_professor_workload sum to the total number of courses.
C4_CountsSumToCoursesWhenWellFormed ==
    (call.op = "get_professor_workload" /\ TeachingWellFormed) =>
        SumOfCourses(ret.value) = TotalCourses

\* C4 witness: a well-formed ontology whose report has two entries.
C4_Witness ==
    /\ call.op = "get_professor_workload"
    /\ TeachingWellFormed
    /\ Len(ret.value) = 2

(***************************************************************************)
(* Claims about get_available_courses.                                     *)
(***************************************************************************)
\* Courses that all have a code, prerequisites and completed courses; one
\* course's description
\* may lack its type, its name or its credit hours, or give credit hours
\* that are no numeral.
InitAvail ==
    \E cs \in FullCodings,
       ps \in UpTo(PrereqTriples, MaxPrereqEdges),
       ts \in SUBSET TakenTriples,
       dv \in DescriptionVariants(VariedNode) :
        Loaded(cs \cup ps \cup ts \cup dv
                  \cup UNION {Described(n) : n \in Nodes \ {VariedNode}})

NextAvail == CallGetAvailableCourses \/ Return

SpecAvail == InitAvail /\ [][NextAvail]_vars

Entries(list) == {list[i] : i \in 1..Len(list)}
EntryCodes(list) == {list[i].code : i \in 1..Len(list)}

\* the codes of the resources typed :Course
CodesOfCourses ==
    {str(t[3]) : t \in {u \in g : u[2] = "courseCode" /\ TypeTriple(u[1]) \in g}}

\* the codes of the not-yet-taken courses for which eligibility holds
EligibleCodes(student_id) ==
    {code \in CodesOfCourses : /\ code \notin get_courses_taken(student_id)
                               /\ can_enroll(student_id, code)[1]}

\* the same courses, those among them that carry a name and credit hours,
\* as <<code, name, credit hours>>
EligibleListable(student_id) ==
    UNION {{<<c[1], c[3], n[3], h[3]>> :
              n \in {u \in g : u[2] = "courseName" /\ u[1] = c[1]},
              h \in {u \in g : u[2] = "creditHours" /\ u[1] = c[1]}} :
           c \in LET eligible == EligibleCodes(student_id)
                IN {u \in g : /\ u[2] = "courseCode"
                               /\ TypeTriple(u[1]) \in g
                               /\ str(u[3]) \in eligible}}

C6_TakenCoursesNotListed ==
    (call.op = "get_available_courses" /\ ret.status = "ok") =>
        EntryCodes(ret.value) \cap get_courses_taken(call.student_id) = {}

\* C6 witness: a described course that the student has taken, and whose
\* prerequisites the student satisfies, is absent from the returned list.
C6_Witness ==
    /\ call.op = "get_available_courses"
    /\ ret.status = "ok"
    /\ \E r \in CourseRows :
          /\ str(r[2]) \in get_courses_taken(call.student_id)
          /\ can_enroll(call.student_id, str(r[2]))[1]
          /\ get_prerequisites(str(r[2])) # <<>>
          /\ str(r[2]) \notin EntryCodes(ret.value)

\* the code terms of the courses that lie on a hasPrerequisite cycle
CodeTermsOnCycle == CodeTermsOf({n \in Nodes : n \in PrereqPlus({n})})

\* what C9 says of a code A of a course on a cycle, seen when
\* get_available_courses has returned
CycleBlocks(A) ==
    call.op = "get_available_courses" =>
    /\ A \in Range(get_prerequisites(A))
    /\ \A s \in QueryStudents :
          A \notin get_courses_taken(s) =>
              LET answer == can_enroll(s, A)
              IN ~answer[1] /\ A \in Range(answer[2])
    /\ ret.status = "ok" => A \notin EntryCodes(ret.value)

\* C9 as stated: for every course on a hasPrerequisite cycle,
\* get_prerequisites of its code includes that code, can_enroll is False for
\* every student who has not taken it, with the code listed as missing, and
\* get_available_courses never lists it.
C9_AsStated ==
    call.op = "get_available_courses" =>
        \A c \in CodeTermsOnCycle : CycleBlocks(str(c))

\* C9, amended: the same for every course on a hasPrerequisite cycle whose
\* courseCode is a plain literal, the only kind of term that the queries'
\* "course_code" pattern matches.
C9_PlainCodeOnCycleBlocks ==
    call.op = "get_available_courses" =>
        \A c \in CodeTermsOnCycle : c[1] = "plain" => CycleBlocks(str(c))

\* C9 witness: a fully described course with a plain code lies on a cycle,
\* the student has not taken it, and the returned list leaves it out.
C9_Witness ==
    /\ call.op = "get_available_courses"
    /\ ret.status = "ok"
    /\ \E r \in CourseRows :
          /\ r[1] \in PrereqPlus({r[1]})
          /\ r[2][1] = "plain"
          /\ IsInt(r[4])
          /\ str(r[2]) \notin get_courses_taken(call.student_id)
          /\ str(r[2]) \notin EntryCodes(ret.value)

(***************************************************************************)
(* Claims about get_course_info.                                           *)
(***************************************************************************)
\* Courses that all have a code, and prerequisites; one course's description
\* may lack its name or credit hours, or give credit hours that are no
\* numeral, and it may have a professor or a department.
InitInfo ==
    \E cs \in FullCodings,
       ps \in UpTo(PrereqTriples, MaxPrereqEdges),
       dv \in InfoVariants(VariedNode),
       ov \in OptionalVariants(VariedNode) :
        Loaded(cs \cup ps \cup dv \cup ov
                  \cup UNION {Described(n) : n \in Nodes \ {VariedNode}})

NextInfo == CallGetCourseInfo \/ Return

SpecInfo == InitInfo /\ [][NextInfo]_vars

\* the credit hours of the courses that carry the code as a plain literal and
\* have a name
CreditsOfNamed(course_code) ==
    {h[3] : h \in {u \in g : /\ u[2] = "creditHours"
                             /\ <<u[1], "courseCode", Lit(course_code)>> \in g
                             /\ \E n \in g : n[1] = u[1] /\ n[2] = "courseName"}}

InitGrow ==
    \E cs \in FullCodings,
       ps \in UpTo(PrereqTriples, MaxPrereqEdges) :
        Loaded(cs \cup ps)

NextGrow == Reload \/ CallCanEnroll \/ Return

SpecGrow == InitGrow /\ [][NextGrow]_vars

\* C8: under a fixed prerequisite graph, as the student's hasTaken set grows,
\* the missing list of can_enroll gains no element and an answer True stays
\* True: against the answer the caller holds from an earlier, smaller
\* ontology, the answer over the present one misses nothing more and is True
\* if the earlier one was.
C8_EligibilityMonotone ==
    call.op = "can_enroll" =>
        LET now == can_enroll(call.student_id, call.course_code)
        IN /\ Range(now[2]) \subseteq Range(ret.value[2])
           /\ ret.value[1] => now[1]

\* C8 witness: the answer held is False with two codes missing, and the
\* completed courses have grown since, so that one code is missing now.
C8_Witness ==
    /\ call.op = "can_enroll"
    /\ Len(ret.value[2]) = 2
    /\ Len(can_enroll(call.student_id, call.course_code)[2]) = 1

====
